---- MODULE Spec2Model ----
(***************************************************************************)
(* Model of src/orbits/scratch.py: a sweep of the sky-projected separation *)
(* over a six-dimensional grid of orbital parameters, followed by a        *)
(* threshold mask.                                                         *)
(*                                                                         *)
(* Real numbers are fixed-point integers in units of 1/Scale: 5.0 is 5000, *)
(* np.pi is 3142.  Arrays are functions over 0..n-1, as numpy indexes      *)
(* them.  The result table is kept column by column: r_batman[col][row]    *)
(* models r_batman[row, col].  The grid has its full 720 points; the time  *)
(* axis is sampled at NTimes points instead of 1000.                       *)
(***************************************************************************)
EXTENDS Integers, Sequences, FiniteSets

\* ------------------------------------------------------------ numbers

\* Resolution of the fixed-point representation of a float.
Scale == 1000

\* np.pi
Pi == 3142

\* a / b rounded to the nearest integer, b > 0
RDiv(a, b) == (2 * a + b) \div (2 * b)

Abs(x) == IF x < 0 THEN -x ELSE x

\* len() of an array
len(x) == Cardinality(DOMAIN x)

\* np.linspace(start, stop, num): num evenly spaced samples, both ends
\* included.
linspace(start, stop, num) ==
  [k \in 0..(num - 1) |-> start + RDiv(k * (stop - start), num - 1)]

\* x[1:]: every element but the first
DropFirst(x) == [k \in 0..(len(x) - 2) |-> x[k + 1]]

\* x[:-1]: every element but the last
DropLast(x) == [k \in 0..(len(x) - 2) |-> x[k]]

\* n terms of a Taylor series in x, each term got from the one before:
\* step 1 and sign 1 give sum x^k / k! (exp), step 2 and sign -1 give
\* sum (-1)^j x^(2j) / (2j)! (cos).
RECURSIVE Series(_, _, _, _, _, _)
Series(x, term, k, step, sign, n) ==
  IF n = 0 THEN 0
  ELSE term + Series(x, sign * RDiv(RDiv(term * x, Scale) * (IF step = 2 THEN x ELSE Scale),
                                    Scale * (IF step = 2 THEN (k + 1) * (k + 2) ELSE (k + 1))),
                     k + step, step, sign, n - 1)

\* np.exp on [0, 4.5]
exp(x) == Series(x, Scale, 0, 1, 1, 24)

\* Bisection: the greatest y in lo..hi-1 with exp(y) <= x, given exp(lo) <= x < exp(hi).
RECURSIVE LogSearch(_, _, _)
LogSearch(x, lo, hi) ==
  IF hi - lo <= 1 THEN lo
  ELSE LET mid == (lo + hi) \div 2
       IN IF exp(mid) <= x THEN LogSearch(x, mid, hi) ELSE LogSearch(x, lo, mid)

\* np.log on [1, 90): the y whose exp is nearest to x
log(x) ==
  LET y == LogSearch(x, 0, 4500)
  IN IF Abs(exp(y + 1) - x) < Abs(exp(y) - x) THEN y + 1 ELSE y

\* cos on [0, pi]
cos(x) == Series(x, Scale, 0, 2, -1, 12)

\* Bisection: the least y in lo+1..hi with cos(y) <= x, given cos(lo) > x >= cos(hi).
RECURSIVE ArccosSearch(_, _, _)
ArccosSearch(x, lo, hi) ==
  IF hi - lo <= 1 THEN hi
  ELSE LET mid == (lo + hi) \div 2
       IN IF cos(mid) <= x THEN ArccosSearch(x, lo, mid) ELSE ArccosSearch(x, mid, hi)

\* np.arccos on [-1, 1], principal value in [0, pi]: the least angle whose
\* cosine is not above x.
arccos(x) == IF cos(0) <= x THEN 0 ELSE ArccosSearch(x, 0, Pi)

\* ------------------------------------------------------------ arrays

\* Product of the entries of a tuple of integers from position k on.
RECURSIVE Prod(_, _)
Prod(shape, k) == IF k > Len(shape) THEN 1 ELSE shape[k] * Prod(shape, k + 1)

\* All index tuples of an array of the given shape.
Indices(shape) ==
  {idx \in [1..Len(shape) -> 0..(Prod(shape, 1) - 1)] :
     \A d \in 1..Len(shape) : idx[d] < shape[d]}

\* Position of input k among the output dimensions under indexing='xy':
\* the first two dimensions are exchanged.
xyDim(k) == IF k = 1 THEN 2 ELSE IF k = 2 THEN 1 ELSE k

\* indexing='ij': output dimensions in input order.
meshgrid_ij(xs) ==
  LET shape == [d \in 1..Len(xs) |-> len(xs[d])]
  IN [k \in 1..Len(xs) |->
        [shape |-> shape, data |-> [idx \in Indices(shape) |-> xs[k][idx[k]]]]]

\* np.meshgrid(*xs) with its default indexing='xy': for inputs of lengths
\* (N1, N2, N3, ...) every output has shape (N2, N1, N3, ...), and output k
\* holds xs[k] along the dimension of input k.
meshgrid(xs) ==
  LET shape == [d \in 1..Len(xs) |-> len(xs[xyDim(d)])]
  IN [k \in 1..Len(xs) |->
        [shape |-> shape, data |-> [idx \in Indices(shape) |-> xs[k][idx[xyDim(k)]]]]]

\* An unravel whose strides are one dimension short.
unravel_short(n, shape) ==
  [d \in 1..Len(shape) |-> (n \div Prod(shape, d + 2)) % shape[d]]

\* The index tuple of flat position n in C (row-major) order: the last
\* dimension varies fastest.
unravel(n, shape) ==
  [d \in 1..Len(shape) |-> (n \div Prod(shape, d + 1)) % shape[d]]

\* x.flatten(): the elements in C order.
flatten(x) ==
  [n \in 0..(Prod(x.shape, 1) - 1) |-> x.data[unravel(n, x.shape)]]

\* The slice [1:] in place of [:-1]: the first cosine is dropped, not the last.
inclSlice_first(x) == DropFirst(x)

\* [:-1] on line 11
inclSlice(x) == DropLast(x)

\* The six per-axis value lists, lines 6-11, in argument order.
axis_t0 == linspace(-5 * Scale, 5 * Scale, 2)

axis_period ==
  LET ls == linspace(log(5 * Scale), log(50 * Scale), 3)
  IN [k \in DOMAIN ls |-> exp(ls[k])]

axis_a == linspace(50 * Scale, 100 * Scale, 2)

axis_e == linspace(0, (9 * Scale) \div 10, 5)

axis_omega == linspace(-Pi, Pi, 3)

axis_incl ==
  LET c == inclSlice(linspace(0, Scale, 5))
  IN [k \in DOMAIN c |-> arccos(c[k])]

axes == <<axis_t0, axis_period, axis_a, axis_e, axis_omega, axis_incl>>

\* ------------------------------------------------------------ separation

\* Position within the orbit at time tt, in [0, per).
sep_phase(tt, tt0, per, w) == (tt - tt0 + RDiv(w * per, 2 * Pi)) % per

\* A triangle wave of the phase, in [0, 1].
sep_tri(phase, per) == RDiv(Abs(2 * phase - per) * Scale, per)

\* The separation in the orbital plane, then its projection on the sky.
sep_proj(tri, aa, inc, ecc) ==
  RDiv(RDiv(aa * (Scale + RDiv(ecc * (2 * tri - Scale), Scale)), Scale)
         * (Scale - RDiv(inc * tri, 2 * Pi)),
       Scale)

\* One sample of the stand-in for the external routine: a closed-form
\* separation that depends on every argument.
sep(tt, tt0, per, aa, inc, ecc, w, u1, u2) ==
  sep_proj(sep_tri(sep_phase(tt, tt0, per, w), per), aa, inc, ecc) + (u1 - u2)

\* Whether _rsky._rsky(ts, *args) raises: the routine rejects an
\* eccentricity (its fifth orbital argument) of elim or more.
_rsky_raises(elim, ts, args) == args[5] >= elim

\* _rsky._rsky(ts, t0, period, a, incl, e, omega, u1, u2) when it returns:
\* one separation per time sample.
_rsky(ts, args) ==
  [row \in DOMAIN ts |->
     sep(ts[row], args[1], args[2], args[3], args[4], args[5], args[6], args[7], args[8])]

\* The rejection thresholds of the routines considered: the library's own
\* (e >= 1) and stricter ones that fail at some grid point.
ELims == {0, (225 * Scale) \div 1000, (45 * Scale) \div 100, (9 * Scale) \div 10, Scale}

\* ------------------------------------------------------------ state

\* Number of time samples of the model: line 1 asks for 1000, the model takes
\* this many, evenly spaced over the same interval [-100, 100].
NTimes == 4

\* Number of distinct fills of uninitialised memory considered.
NGarbage == 2

\* The fills: 0.0, 100.0, 200.0, ...
Garbage(g) == g * 100 * Scale

\* A name that is not bound.
Unbound == <<>>

VARIABLES
  pc,        \* the line about to run: "line1", "line3", "line14", "line16",
             \* "line20"; "done" after the last line, "raised" after an exception
  t, t0, period, a, e, omega, incl,   \* the arrays of lines 1 and 3
  r_batman,  \* the result table, r_batman[col][row]
  it,        \* how many values range(len(t0)) has yielded
  i,         \* the loop variable
  m,         \* the mask, m[col][row]
  rsky,      \* the external routine: its rejection threshold
  calls,     \* history: the grid points the routine was invoked for, in order
  writes,    \* history: the columns assigned, in order
  prev       \* the tables and masks of the earlier complete runs

vars == <<pc, t, t0, period, a, e, omega, incl, r_batman, it, i, m, rsky, calls, writes, prev>>

params == <<t0, period, a, e, omega, incl>>

Init ==
  /\ pc = "line1"
  /\ t = Unbound /\ t0 = Unbound /\ period = Unbound /\ a = Unbound
  /\ e = Unbound /\ omega = Unbound /\ incl = Unbound
  /\ r_batman = Unbound /\ m = Unbound
  /\ it = 0 /\ i = -1
  /\ rsky \in ELims
  /\ calls = <<>> /\ writes = <<>>
  /\ prev = <<>>

\* line 1
Line1 ==
  /\ pc = "line1"
  /\ t' = linspace(-100 * Scale, 100 * Scale, NTimes)
  /\ pc' = "line3"
  /\ UNCHANGED <<params, r_batman, it, i, m, rsky, calls, writes, prev>>

\* lines 3-13
Line3 ==
  /\ pc = "line3"
  /\ LET g == meshgrid(axes)
     IN /\ t0' = flatten(g[1])
        /\ period' = flatten(g[2])
        /\ a' = flatten(g[3])
        /\ e' = flatten(g[4])
        /\ omega' = flatten(g[5])
        /\ incl' = flatten(g[6])
  /\ pc' = "line14"
  /\ UNCHANGED <<t, r_batman, it, i, m, rsky, calls, writes, prev>>

\* An allocation with the two extents exchanged.
np_empty_T(rows, cols, fill) ==
  [c \in 0..(rows - 1) |-> [row \in 0..(cols - 1) |-> fill]]

\* np.empty((rows, cols)): a table of that shape with whatever the memory held.
np_empty(rows, cols, fill) ==
  [c \in 0..(cols - 1) |-> [row \in 0..(rows - 1) |-> fill]]

\* line 14
Line14 ==
  /\ pc = "line14"
  /\ \E g \in 0..(NGarbage - 1) : r_batman' = np_empty(len(t), len(t0), Garbage(g))
  /\ it' = 0
  /\ pc' = "line16"
  /\ UNCHANGED <<t, params, i, m, rsky, calls, writes, prev>>

\* A range that advances by two.
range_next_by2(k) == k + 2

\* range(n): the position after the one that yielded k
range_next(k) == k + 1

\* The arguments with the inclination after eccentricity and omega.
args_inclLast(k) == <<t0[k], period[k], a[k], omega[k], e[k], incl[k], 1, 1>>

\* lines 17-19: the arguments after t of the call for grid point k
args(k) == <<t0[k], period[k], a[k], incl[k], e[k], omega[k], 1, 1>>

\* An assignment that adds to what the column held: += for =.
setcol_add(table, k, col) ==
  [table EXCEPT ![k] = [row \in DOMAIN col |-> table[k][row] + col[row]]]

\* An assignment that also spills into the next column.
setcol_spill(table, k, col) ==
  [c \in DOMAIN table |-> IF c = k \/ c = k + 1 THEN col ELSE table[c]]

\* r_batman[:, k] = col
setcol(table, k, col) == [table EXCEPT ![k] = col]

\* lines 16-19, the routine returns
LoopBody ==
  /\ pc = "line16"
  /\ it < len(t0)
  /\ ~_rsky_raises(rsky, t, args(it))
  /\ i' = it
  /\ r_batman' = setcol(r_batman, it, _rsky(t, args(it)))
  /\ calls' = Append(calls, it)
  /\ writes' = Append(writes, it)
  /\ it' = range_next(it)
  /\ UNCHANGED <<pc, t, params, m, rsky, prev>>

\* An exception handler that goes on with the next grid point.
LoopSkip ==
  /\ pc = "line16"
  /\ it < len(t0)
  /\ _rsky_raises(rsky, t, args(it))
  /\ i' = it
  /\ calls' = Append(calls, it)
  /\ it' = range_next(it)
  /\ UNCHANGED <<pc, t, params, r_batman, m, rsky, writes, prev>>

\* lines 16-19, the routine raises: nothing catches the exception
LoopRaise ==
  /\ pc = "line16"
  /\ it < len(t0)
  /\ _rsky_raises(rsky, t, args(it))
  /\ i' = it
  /\ calls' = Append(calls, it)
  /\ pc' = "raised"
  /\ UNCHANGED <<t, params, r_batman, it, m, rsky, writes, prev>>

\* line 16, the range is exhausted
LoopExit ==
  /\ pc = "line16"
  /\ it >= len(t0)
  /\ pc' = "line20"
  /\ UNCHANGED <<t, params, r_batman, it, i, m, rsky, calls, writes, prev>>

\* A comparison that lets the threshold itself through.
less_eq(table, x) ==
  [c \in DOMAIN table |-> [row \in DOMAIN table[c] |-> table[c][row] <= x]]

\* table < x, element by element
less(table, x) ==
  [c \in DOMAIN table |-> [row \in DOMAIN table[c] |-> table[c][row] < x]]

\* line 20
Line20 ==
  /\ pc = "line20"
  /\ m' = less(r_batman, 100 * Scale)
  /\ pc' = "done"
  /\ UNCHANGED <<t, params, r_batman, it, i, rsky, calls, writes, prev>>

\* The script is run once more, in a fresh interpreter, with the same
\* routine; the outcome of the first run is kept for comparison.
Rerun ==
  /\ pc = "done"
  /\ prev = <<>>
  /\ prev' = <<[r_batman |-> r_batman, m |-> m]>>
  /\ pc' = "line1"
  /\ t' = Unbound /\ t0' = Unbound /\ period' = Unbound /\ a' = Unbound
  /\ e' = Unbound /\ omega' = Unbound /\ incl' = Unbound
  /\ r_batman' = Unbound /\ m' = Unbound
  /\ it' = 0 /\ i' = -1
  /\ calls' = <<>> /\ writes' = <<>>
  /\ UNCHANGED rsky

Next == Line1 \/ Line3 \/ Line14 \/ LoopBody \/ LoopRaise \/ LoopExit \/ Line20

Spec == Init /\ [][Next]_vars

NextTwice == Next \/ Rerun

SpecTwice == Init /\ [][NextTwice]_vars

\* ------------------------------------------------------------ grid claims

\* The values an array takes.
Range(x) == {x[k] : k \in DOMAIN x}

\* Grid point n as the tuple (t0, period, a, e, omega, incl).
GridTuple(n) == <<t0[n], period[n], a[n], e[n], omega[n], incl[n]>>

\* The number of tuples in the cartesian product of a tuple of value lists.
RECURSIVE Size(_)
Size(ls) == IF ls = <<>> THEN 1 ELSE len(Head(ls)) * Size(Tail(ls))

\* Tuple number j (from 0) of the cartesian product of a tuple of value
\* lists, enumerated with the first list slowest and the last list fastest:
\* each value of the first list heads a full enumeration of the rest.
RECURSIVE Product(_, _)
Product(ls, j) ==
  IF ls = <<>> THEN <<>>
  ELSE <<Head(ls)[j \div Size(Tail(ls))]>> \o Product(Tail(ls), j % Size(Tail(ls)))

GridBuilt == pc = "line14"

\* Grid point n is tuple n of the enumeration of ls, for every n; ls lists
\* the value lists of t0, period, a, e, omega, incl in this order.
EnumeratesAxisOrder(ls) ==
  \A n \in 0..719 : GridTuple(n) = Product(ls, n)

\* The same with ls listing the value lists of period, t0, a, e, omega, incl.
EnumeratesPeriodFirst(ls) ==
  \A n \in 0..719 :
    <<period[n], t0[n], a[n], e[n], omega[n], incl[n]>> = Product(ls, n)

\* The set of all combinations of one value from each of six sets.
Combinations(s1, s2, s3, s4, s5, s6) ==
  {<<x1, x2, x3, x4, x5, x6>> :
     x1 \in s1, x2 \in s2, x3 \in s3, x4 \in s4, x5 \in s5, x6 \in s6}

\* C1 as stated: after the grid builder runs, grid point i is the i-th tuple
\* of the cartesian product of the six value lists enumerated row-major in
\* the order t0, period, a, e, omega, incl (t0 slowest, incl fastest).
C1_RowMajorInAxisOrder ==
  GridBuilt => EnumeratesAxisOrder(axes)

\* C1 amended: after the grid builder runs, grid point i is the i-th tuple of
\* the cartesian product enumerated row-major in the order period, t0, a, e,
\* omega, incl: period varies slowest, then t0, and incl fastest.
C1_RowMajorPeriodFirst ==
  GridBuilt =>
    EnumeratesPeriodFirst(<<axis_period, axis_t0, axis_a, axis_e, axis_omega, axis_incl>>)

\* The grid is built, and its first two axes are seen in the order the
\* flattening gives them: t0 changes 120 points in, period only 240 in.
C1_Witness ==
  /\ GridBuilt
  /\ len(t0) = 720
  /\ t0[120] # t0[0] /\ period[120] = period[0]
  /\ period[240] # period[0] /\ t0[240] = t0[0]

\* C2: the six flattened sequences all have length 720 = 2*3*2*5*3*4, and
\* i -> grid point i is a bijection from 0..719 onto the cartesian product of
\* the six axes: every combination occurs at exactly one index.
C2_GridBijection ==
  GridBuilt =>
    /\ \A k \in 1..6 : DOMAIN params[k] = 0..719
    /\ [k \in 1..6 |-> len(axes[k])] = <<2, 3, 2, 5, 3, 4>>
    /\ Size(axes) = 720 /\ 720 = 2 * 3 * 2 * 5 * 3 * 4
    /\ {GridTuple(n) : n \in 0..719}
         = Combinations(Range(axis_t0), Range(axis_period), Range(axis_a),
                        Range(axis_e), Range(axis_omega), Range(axis_incl))
    /\ Cardinality({GridTuple(n) : n \in 0..719}) = 720

\* The grid is built with 720 points, the first and the last of them
\* differing in every parameter.
C2_Witness ==
  /\ GridBuilt
  /\ len(incl) = 720
  /\ \A k \in 1..6 : GridTuple(0)[k] # GridTuple(719)[k]

\* C7: the inclination axis has exactly 4 values, the arccos of the first 4
\* of 5 evenly spaced values in [0, 1]; the excluded one is the last (1,
\* whose arccos is 0), so no grid point has incl = 0 and every incl lies in
\* (0, pi/2].
C7_InclAxis ==
  GridBuilt =>
    LET c == linspace(0, Scale, 5)
    IN /\ len(axis_incl) = 4
       /\ \A k \in 0..3 : axis_incl[k] = arccos(c[k])
       /\ c[4] = Scale /\ arccos(c[4]) = 0
       /\ Range(incl) = Range(axis_incl)
       /\ \A n \in DOMAIN incl : incl[n] > 0 /\ 2 * incl[n] <= Pi

\* The grid is built, and both ends of the inclination axis occur in it:
\* arccos(0) = pi/2 and arccos(3/4).
C7_Witness ==
  /\ GridBuilt
  /\ \E n \in DOMAIN incl : 2 * incl[n] = Pi
  /\ \E n \in DOMAIN incl : incl[n] = arccos((3 * Scale) \div 4)

\* ------------------------------------------------------------ sweep claims

Done == pc = "done"

\* The sequence 0, 1, ..., n-1.
UpTo(n) == [j \in 1..n |-> j - 1]

\* separation(t, t0[col], period[col], a[col], incl[col], e[col], omega[col], 1, 1)
SeparationOf(col) ==
  _rsky(t, <<t0[col], period[col], a[col], incl[col], e[col], omega[col], 1, 1>>)

\* C3: when the sweep completes, result[row, col] for every row (every time
\* sample) and col in 0..719 is element row of separation(t, t0[col], period[col], a[col],
\* incl[col], e[col], omega[col], 1, 1): the column of grid point col comes
\* from that grid point's parameters alone, inclination passed before
\* eccentricity and omega.
C3_ColumnOfGridPoint ==
  /\ (pc \in {"line16", "line20", "raised"} /\ writes # <<>>) =>
        r_batman[writes[Len(writes)]] = SeparationOf(writes[Len(writes)])
  /\ Done =>
        \A col \in 0..719 : \A row \in 0..(NTimes - 1) :
           r_batman[col][row] = SeparationOf(col)[row]

\* The sweep is complete and the table is not constant: two grid points that
\* differ only in inclination have different columns.
C3_Witness ==
  /\ Done
  /\ Len(writes) = 720
  /\ r_batman[0] # r_batman[1]

\* C4: mask[row, col] is true exactly when result[row, col] < 100.0, strictly:
\* a cell equal to 100.0 has mask false; the mask has the shape of the table.
C4_MaskStrict ==
  Done =>
    /\ DOMAIN m = DOMAIN r_batman
    /\ \A col \in DOMAIN r_batman :
         /\ DOMAIN m[col] = DOMAIN r_batman[col]
         /\ \A row \in DOMAIN r_batman[col] :
              /\ m[col][row] = (r_batman[col][row] < 100 * Scale)
              /\ (r_batman[col][row] = 100 * Scale => ~m[col][row])

\* The mask exists, and the table has a cell below 100.0, a cell of exactly
\* 100.0 and a cell above it.
C4_Witness ==
  /\ Done
  /\ \E col \in DOMAIN r_batman : \E row \in DOMAIN r_batman[col] :
       r_batman[col][row] < 100 * Scale /\ m[col][row]
  /\ \E col \in DOMAIN r_batman : \E row \in DOMAIN r_batman[col] :
       r_batman[col][row] = 100 * Scale /\ ~m[col][row]
  /\ \E col \in DOMAIN r_batman : \E row \in DOMAIN r_batman[col] :
       r_batman[col][row] > 100 * Scale /\ ~m[col][row]

\* Whether the routine raises for grid point k.
RaisesAt(k) ==
  _rsky_raises(rsky, t, <<t0[k], period[k], a[k], incl[k], e[k], omega[k], 1, 1>>)

\* C5: if the routine raises at grid point k the sweep ends failed there: the
\* grid points before k were each evaluated once and k once (no retry), none
\* after k is evaluated, k is not skipped, nothing runs afterwards and the
\* mask is never produced.
C5_FailFast ==
  /\ [](pc = "raised" =>
          /\ calls # <<>>
          /\ i = Len(calls) - 1
          /\ RaisesAt(i)
          /\ calls = UpTo(i + 1)
          /\ writes = UpTo(i)
          /\ DOMAIN m = {})
  /\ [][pc # "raised"]_vars
  /\ [][(pc = "line16" /\ it < len(t0) /\ RaisesAt(it)) => pc' = "raised"]_vars

\* The sweep has failed at a grid point that has grid points before and
\* after it.
C5_Witness ==
  /\ pc = "raised"
  /\ i > 0 /\ i < 719
  /\ RaisesAt(i)

\* C6: the result table has shape exactly (len(t), 720): as many rows as the
\* time axis has samples (1000 in the script, NTimes here) and as many
\* columns as the flattened sequences have entries.
C6_TableShape ==
  pc \in {"line16", "line20", "done", "raised"} =>
    /\ len(t) = NTimes
    /\ \A k \in 1..6 : len(params[k]) = 720
    /\ DOMAIN r_batman = 0..719
    /\ \A col \in 0..719 : DOMAIN r_batman[col] = 0..(NTimes - 1)
    /\ len(r_batman) = len(t0)
    /\ \A col \in DOMAIN r_batman : len(r_batman[col]) = len(t)

\* The table is allocated and half filled.
C6_Witness ==
  /\ pc = "line16"
  /\ it = 360
  /\ len(r_batman) = 720

\* C9: the routine is invoked exactly once per grid point, 720 times in a
\* complete sweep; an invocation writes its own column i and leaves every
\* other column, the time axis and the six parameter sequences as they were;
\* and processing two grid points in either order gives the same table.
C9_OwnColumnOnly ==
  /\ [](Done =>
          /\ Len(calls) = 720
          /\ \A k \in 0..719 : Cardinality({j \in 1..Len(calls) : calls[j] = k}) = 1)
  /\ [][calls' # calls =>
          /\ calls' = Append(calls, i')
          /\ t' = t /\ params' = params
          /\ DOMAIN r_batman' = DOMAIN r_batman
          /\ \A c \in DOMAIN r_batman : c # i' => r_batman'[c] = r_batman[c]]_vars
  /\ [](pc = "line16" /\ it + 1 < len(t0) /\ ~RaisesAt(it) /\ ~RaisesAt(it + 1) =>
          setcol(setcol(r_batman, it, _rsky(t, args(it))), it + 1, _rsky(t, args(it + 1)))
            = setcol(setcol(r_batman, it + 1, _rsky(t, args(it + 1))), it, _rsky(t, args(it))))

\* Grid point 359 has just been processed: its column is written and the
\* next one still holds what the allocation left.
C9_Witness ==
  /\ pc = "line16"
  /\ it = 360 /\ i = 359
  /\ calls = UpTo(360)
  /\ r_batman[359] = _rsky(t, args(359))
  /\ r_batman[360] # _rsky(t, args(360))

\* C10: the table is allocated uninitialised; at the start of iteration i
\* exactly the columns 0..i-1 are written; the loop ends after exactly 720
\* iterations with every column written exactly once over all its rows;
\* the mask exists only after that, so thresholding reads no unwritten cell.
C10_AllWrittenBeforeMask ==
  /\ (pc = "line16" /\ it = 0) =>
        \E g \in 0..(NGarbage - 1) : r_batman = np_empty(NTimes, 720, Garbage(g))
  /\ pc = "line16" => writes = UpTo(it) /\ it <= 720
  /\ pc \in {"line20", "done"} =>
        /\ it = 720
        /\ writes = UpTo(720)
        /\ \A col \in 0..719 : DOMAIN r_batman[col] = DOMAIN t
  /\ DOMAIN m # {} => pc = "done"

\* The loop has ended and the threshold is about to be applied.
C10_Witness ==
  /\ pc = "line20"
  /\ Len(writes) = 720
  /\ DOMAIN m = {}

\* C8: two complete runs with the same constants and the same routine give
\* identical result tables and identical masks, whatever the memory held at
\* either allocation: every column the second run writes is the first run's
\* column, and so are the finished table and mask.
C8_SameOutcome ==
  /\ (prev # <<>> /\ pc = "line16" /\ writes # <<>>) =>
        r_batman[writes[Len(writes)]] = prev[1].r_batman[writes[Len(writes)]]
  /\ (prev # <<>> /\ Done) =>
        /\ r_batman = prev[1].r_batman
        /\ m = prev[1].m

\* A second run has completed after a first complete one.
C8_Witness ==
  /\ Done
  /\ Len(prev) = 1
  /\ Len(writes) = 720

====
